---- MODULE Spec2Model ----
(***************************************************************************)
(* Model of the sentiment-engine dashboard front end: the Home controller  *)
(* (selection, panel visibility, bucket filter, keyboard shortcuts), the   *)
(* globe markers, and the SWR-backed data hooks (global sentiment,         *)
(* country detail, headlines).                                             *)
(*                                                                         *)
(* Scores and trends are kept in hundredths (0.2 is 20) so that the        *)
(* threshold comparisons of the source are integer comparisons.            *)
(***************************************************************************)
EXTENDS Integers, Sequences, FiniteSets, TLC

VARIABLES
    selectedCountry,   \* Home: useState<string | null>(null)
    showPanel,         \* Home: useState(false)
    sentimentFilter,   \* Home: useState('all')
    clearTimers,       \* number of setTimeout(() => setSelectedCountry(null), 200) not yet fired
    globalCache,       \* SWR cache entry of key 'global-sentiment': data and error
    globalFetch,       \* requests of that key in flight: the current one and superseded ones
    detailCache,       \* SWR cache entries of the keys `country-${code}`
    detailFetch,       \* per code: the number of requests for `country-${code}` in flight
    headlinesCache,    \* SWR cache entries of the keys `headlines-${code}`
    headlinesFetch,    \* per code: the number of requests for `headlines-${code}` in flight
    lastSel,           \* history: the most recent handleCountrySelect call and its origin
    lastFilter,        \* history: the most recent filter button click
    hookLog,           \* history: the most recent event of a data hook (kept only where a log is started)
    mounted,           \* Home is mounted
    refreshFn,         \* identity of the refresh function useGlobalSentiment returned at the last render
    keyListeners,      \* handleKeyDown closures registered on window, by the deps they captured
    hovered,           \* GlobeMesh: useState<string | null>(null)
    underPointer,      \* markers the pointer is over
    cursor,            \* document.body.style.cursor
    rotationY,         \* meshRef.current.rotation.y, in units of 1e-5 rad
    lastFrame,         \* history: the most recent useFrame callback
    colorScore,        \* the score handed to interpolateSentimentColor, in hundredths
    color,             \* the colour it returned, once it has been called
    sentimentColor,    \* what getSentimentColor returned for that score
    label,             \* what getSentimentLabel returned for that score
    animValue,         \* AnimatedNumber: the value prop of the last render
    displayValue,      \* AnimatedNumber: the displayValue state
    animTimers,        \* AnimatedNumber: the active interval timers, each with
                       \* the value and step of its closure
    animMounted,       \* AnimatedNumber: whether the component is mounted
    valueChanges       \* how many times the value prop has changed

vars == <<selectedCountry, showPanel, sentimentFilter, clearTimers,
          globalCache, globalFetch, detailCache, detailFetch,
          headlinesCache, headlinesFetch, lastSel, lastFilter,
          hookLog, mounted, refreshFn, keyListeners,
          hovered, underPointer, cursor, rotationY, lastFrame,
          colorScore, color, sentimentColor, label,
          animValue, displayValue, animTimers, animMounted, valueChanges>>

ctlVars == <<selectedCountry, showPanel, clearTimers, lastSel>>
filterVars == <<sentimentFilter, lastFilter>>
globalVars == <<globalCache, globalFetch>>
detailVars == <<detailCache, detailFetch, headlinesCache, headlinesFetch>>
listenerVars == <<mounted, refreshFn, keyListeners>>
globeVars == <<hovered, underPointer, cursor, rotationY, lastFrame>>
colorVars == <<colorScore, color, sentimentColor, label>>
animVars == <<animValue, displayValue, animTimers, animMounted, valueChanges>>
sceneVars == <<globeVars, colorVars, animVars>>
pageVars == <<ctlVars, filterVars, globalVars, detailVars>>

----------------------------------------------------------------------------
(* Bounds *)

MaxTimers == 3      \* pending clear timers (one Escape press schedules three)
MaxStale == 1       \* superseded global requests still in flight
MaxRefreshFns == 2  \* times useGlobalSentiment hands Home a new refresh function
MaxRotation == 300  \* rotation.y the frames are followed up to, in units of 1e-5 rad
ScoreMax == 150     \* scores handed to the colour mapper range over -1.5 .. 1.5
MaxValue == 24      \* values handed to AnimatedNumber range over 0 .. 24
MaxValueChanges == 2  \* times the value of AnimatedNumber changes

----------------------------------------------------------------------------
(* Values *)

NULL == "null"
Codes == {"JP", "US"}
Filters == {"all", "positive", "neutral", "negative"}
Buckets == {"positive", "neutral", "negative"}

\* JavaScript undefined / a present value, for cache data
None == <<>>
Some(v) == <<v>>
IsSome(o) == o # <<>>
Val(o) == o[1]

NoTrend == 999      \* CountryData.trend absent (the field is optional)

\* CountryData records a poll can deliver: both codes, scores just beyond
\* and exactly on the two thresholds, trends present, zero and absent.
CountryData ==
    { [country_code |-> "JP", sentiment_score |-> 21,  trend |-> 4],
      [country_code |-> "US", sentiment_score |-> 20,  trend |-> NoTrend],
      [country_code |-> "JP", sentiment_score |-> -20, trend |-> 0],
      [country_code |-> "US", sentiment_score |-> -21, trend |-> -2] }

\* A snapshot lists a country at most once (one CountryData per country
\* per fetch cycle), in any order.
CountryLists ==
    { cs \in UNION { [1..n -> CountryData] : n \in 0..Cardinality(Codes) } :
        \A i, j \in 1..Len(cs) : i # j => cs[i].country_code # cs[j].country_code }

\* GlobalSentiment snapshots (only the country list is read by the controller)
Snapshots == { [countries |-> cs] : cs \in CountryLists }

----------------------------------------------------------------------------
(* Derived views of Home, recomputed on every render *)

\* data?.countries || []
countries ==
    IF IsSome(globalCache.data) THEN Val(globalCache.data).countries ELSE <<>>

\* SWR isLoading of useGlobalSentiment: a request is running and nothing is loaded
isLoading == globalFetch.cur /\ ~IsSome(globalCache.data)

IsPositive(c) == c.sentiment_score > 20
IsNegative(c) == c.sentiment_score < -20
\* Variant: the neutral bucket without its two boundary scores
IsNeutral_Open(c) == c.sentiment_score > -20 /\ c.sentiment_score < 20

IsNeutral(c) == c.sentiment_score >= -20 /\ c.sentiment_score <= 20

positiveCountries == SelectSeq(countries, IsPositive)
negativeCountries == SelectSeq(countries, IsNegative)
neutralCountries == SelectSeq(countries, IsNeutral)

positiveCount == Len(positiveCountries)
negativeCount == Len(negativeCountries)
neutralCount == Len(neutralCountries)

\* Variant: the list kept unfiltered under the neutral filter
filteredCountries_NeutralUnfiltered ==
    IF sentimentFilter = "all" THEN countries
    ELSE IF sentimentFilter = "positive" THEN positiveCountries
    ELSE IF sentimentFilter = "negative" THEN negativeCountries
    ELSE countries

filteredCountries ==
    IF sentimentFilter = "all" THEN countries
    ELSE IF sentimentFilter = "positive" THEN positiveCountries
    ELSE IF sentimentFilter = "negative" THEN negativeCountries
    ELSE neutralCountries

\* c.trend || 0
TrendOrZero(c) == IF c.trend = NoTrend THEN 0 ELSE c.trend

\* cs.reduce((acc, c) => acc + (c.trend || 0), 0)
RECURSIVE SumTrend(_)
SumTrend(cs) ==
    IF cs = <<>> THEN 0
    ELSE SumTrend(SubSeq(cs, 1, Len(cs) - 1)) + TrendOrZero(cs[Len(cs)])

\* Variant: the mean taken over the filtered list
globalTrend_Filtered ==
    IF Len(filteredCountries) # 0
    THEN Some([sum |-> SumTrend(filteredCountries), count |-> Len(filteredCountries)])
    ELSE None

\* The quotient sum / length is kept as the pair (sum, count); undefined
\* when there is no snapshot or its list is empty.
globalTrend ==
    IF Len(countries) # 0
    THEN Some([sum |-> SumTrend(countries), count |-> Len(countries)])
    ELSE None

CodesOf(cs) == { cs[i].country_code : i \in 1..Len(cs) }

----------------------------------------------------------------------------
(* Home controller *)

ctl == [sel |-> selectedCountry, panel |-> showPanel, timers |-> clearTimers]

\* Variant: a selection that does not open the panel
handleCountrySelect_NoShow(s, countryCode) ==
    IF countryCode # NULL
    THEN [s EXCEPT !.sel = countryCode]
    ELSE [s EXCEPT !.panel = FALSE, !.timers = @ + 1]

\* Variant: a clear that drops the code at once, without the timer
handleCountrySelect_ClearsAtOnce(s, countryCode) ==
    IF countryCode # NULL
    THEN [s EXCEPT !.sel = countryCode, !.panel = TRUE]
    ELSE [s EXCEPT !.panel = FALSE, !.sel = NULL]

\* handleCountrySelect, as a function of the controller state
handleCountrySelect(s, countryCode) ==
    IF countryCode # NULL
    THEN [s EXCEPT !.sel = countryCode, !.panel = TRUE]
    ELSE [s EXCEPT !.panel = FALSE, !.timers = @ + 1]

RECURSIVE CloseTimes(_, _)
CloseTimes(s, n) ==
    IF n = 0 THEN s ELSE CloseTimes(handleCountrySelect(s, NULL), n - 1)

\* The deps of Home's keyboard effect: [selectedCountry, handleCountrySelect,
\* refresh]; handleCountrySelect is a useCallback with no deps and never changes.
Deps(sel, fn) == [sel |-> sel, fn |-> fn]
deps == Deps(selectedCountry, refreshFn)

\* Variant: an effect that returns no cleanup
Cleanup_Missing(ls, d) == ls

\* return () => window.removeEventListener('keydown', handleKeyDown):
\* removes the closure the previous run of the effect registered
Cleanup(ls, d) ==
    IF \E i \in 1..Len(ls) : ls[i] = d
    THEN LET i == CHOOSE k \in 1..Len(ls) :
                      ls[k] = d /\ \A j \in 1..(k - 1) : ls[j] # d
         IN  SubSeq(ls, 1, i - 1) \o SubSeq(ls, i + 1, Len(ls))
    ELSE ls

\* window.addEventListener('keydown', handleKeyDown)
Register(ls, d) == Append(ls, d)

\* useEffect(() => {...}, [selectedCountry, handleCountrySelect, refresh]):
\* when a dep changed in the commit, the cleanup of the previous run and
\* then the effect again
RunEffect(ls, old, new) == IF new # old THEN Register(Cleanup(ls, old), new) ELSE ls

Commit(s) ==
    /\ mounted
    /\ s.timers <= MaxTimers
    /\ selectedCountry' = s.sel
    /\ showPanel' = s.panel
    /\ clearTimers' = s.timers
    /\ keyListeners' = RunEffect(keyListeners, deps, Deps(s.sel, refreshFn))
    /\ UNCHANGED <<mounted, refreshFn>>

\* History of the call: where it came from (via, and the row or marker
\* clicked), the argument passed, the selection it found, and whether a
\* clear timer was pending when a country was selected.
Note(via, code, countryCode) ==
    lastSel' = [via |-> via, code |-> code, arg |-> countryCode,
                was |-> selectedCountry,
                overClear |-> countryCode # NULL /\ clearTimers > 0]

\* CountryList row click: onSelect(country.country_code)
ListClick(c) ==
    /\ ~isLoading
    /\ c \in CodesOf(filteredCountries)
    /\ Commit(handleCountrySelect(ctl, c))
    /\ Note("list", c, c)
    /\ UNCHANGED <<filterVars, globalVars, detailVars, hookLog, sceneVars>>

\* The codes the globe has a centre for (both model codes are in the table)
countryCenters == {"US", "JP"}

\* Variant: a marker click that always selects
MarkerTarget_NoToggle(c) == c

\* Globe marker onClick: toggles the selection
MarkerTarget(c) == IF selectedCountry = c THEN NULL ELSE c

MarkerClick(c) ==
    /\ ~isLoading
    /\ c \in CodesOf(countries) \cap countryCenters
    /\ Commit(handleCountrySelect(ctl, MarkerTarget(c)))
    /\ Note("marker", c, MarkerTarget(c))
    /\ UNCHANGED <<filterVars, globalVars, detailVars, hookLog, sceneVars>>

\* CountryPanel close button or the mobile backdrop: handleCountrySelect(null)
PanelClose ==
    /\ selectedCountry # NULL
    /\ Commit(handleCountrySelect(ctl, NULL))
    /\ Note("close", NULL, NULL)
    /\ UNCHANGED <<filterVars, globalVars, detailVars, hookLog, sceneVars>>

\* One keydown of Escape reaches Home's handler (guarded by the selection)
\* and the handler of each mounted CountryPanel (desktop and mobile).
mountedPanels == IF selectedCountry # NULL THEN 2 ELSE 0

\* Variant: Home's handler without its selection guard
EscapeCalls_Unguarded == 1 + mountedPanels

EscapeCalls == (IF selectedCountry # NULL THEN 1 ELSE 0) + mountedPanels

KeyEscape ==
    /\ Commit(CloseTimes(ctl, EscapeCalls))
    /\ IF EscapeCalls > 0 THEN Note("escape", NULL, NULL) ELSE UNCHANGED lastSel
    /\ UNCHANGED <<filterVars, globalVars, detailVars, hookLog, sceneVars>>

\* The timer body: setSelectedCountry(null)
ClearTimerFires ==
    /\ mounted
    /\ clearTimers > 0
    /\ clearTimers' = clearTimers - 1
    /\ selectedCountry' = NULL
    /\ keyListeners' = RunEffect(keyListeners, deps, Deps(NULL, refreshFn))
    /\ UNCHANGED <<showPanel, lastSel, filterVars, globalVars, detailVars,
                   mounted, refreshFn, hookLog, sceneVars>>

\* Variant: a bucket click that always sets the bucket
BucketTarget_NoToggle(b) == b

\* Bucket button: setSentimentFilter(sentimentFilter === b ? 'all' : b)
BucketTarget(b) == IF sentimentFilter = b THEN "all" ELSE b

BucketClick(b) ==
    /\ sentimentFilter' = BucketTarget(b)
    /\ lastFilter' = [bucket |-> b, was |-> sentimentFilter]
    /\ UNCHANGED <<ctlVars, globalVars, detailVars, hookLog, listenerVars, sceneVars>>

\* "Clear" button, rendered while a bucket is active
ClearFilterClick ==
    /\ sentimentFilter # "all"
    /\ sentimentFilter' = "all"
    /\ lastFilter' = [bucket |-> "clear", was |-> sentimentFilter]
    /\ UNCHANGED <<ctlVars, globalVars, detailVars, hookLog, listenerVars, sceneVars>>

----------------------------------------------------------------------------
(* useGlobalSentiment: useSWR('global-sentiment', ...) *)

\* The hook log: which key (and for a country key which code) and what
\* happened.  A specification that starts with the log off leaves it off.
LogOff == [key |-> "off", code |-> NULL, ev |-> "off"]
LogNone == [key |-> "none", code |-> NULL, ev |-> "none"]
Log(key, code, ev) ==
    hookLog' = IF hookLog = LogOff THEN hookLog
               ELSE [key |-> key, code |-> code, ev |-> ev]

\* Requests of the global key in flight
GlobalInFlight == (IF globalFetch.cur THEN 1 ELSE 0) + globalFetch.old

\* Poll tick (60 s) or focus revalidation; deduplicated against a running request
GlobalRevalidate ==
    /\ ~globalFetch.cur
    /\ globalFetch' = [globalFetch EXCEPT !.cur = TRUE]
    /\ Log("global", NULL, "revalidate")
    /\ UNCHANGED <<ctlVars, filterVars, globalCache, detailVars, listenerVars, sceneVars>>

\* SWR's error retry, which the hook's options leave enabled: after a
\* failure the key is revalidated again (deduplicated), with no poll tick
GlobalErrorRetry ==
    /\ globalCache.error
    /\ ~globalFetch.cur
    /\ globalFetch' = [globalFetch EXCEPT !.cur = TRUE]
    /\ Log("global", NULL, "retry")
    /\ UNCHANGED <<ctlVars, filterVars, globalCache, detailVars, listenerVars, sceneVars>>

\* refresh(): the Refresh button (disabled while loading) or Ctrl/Cmd+R.
\* mutate() starts a new request; a running one is superseded.
GlobalRefresh(viaKey) ==
    /\ viaKey \/ ~isLoading
    /\ globalFetch.cur => globalFetch.old < MaxStale
    /\ globalFetch' = [cur |-> TRUE,
                       old |-> globalFetch.old + (IF globalFetch.cur THEN 1 ELSE 0)]
    /\ Log("global", NULL, "refresh")
    /\ UNCHANGED <<ctlVars, filterVars, globalCache, detailVars, listenerVars, sceneVars>>

\* Variant: a snapshot without the selected country closes the panel
GlobalResolve_ClosesMissing(snap) ==
    /\ globalFetch.cur
    /\ globalCache' = [data |-> Some(snap), error |-> FALSE]
    /\ globalFetch' = [globalFetch EXCEPT !.cur = FALSE]
    /\ showPanel' = (showPanel /\ selectedCountry \in CodesOf(snap.countries))
    /\ Log("global", NULL, "ok")
    /\ UNCHANGED <<selectedCountry, clearTimers, lastSel, filterVars, detailVars,
                   listenerVars, sceneVars>>

\* The current request resolves with a snapshot
GlobalResolve(snap) ==
    /\ globalFetch.cur
    /\ globalCache' = [data |-> Some(snap), error |-> FALSE]
    /\ globalFetch' = [globalFetch EXCEPT !.cur = FALSE]
    /\ Log("global", NULL, "ok")
    /\ UNCHANGED <<ctlVars, filterVars, detailVars, listenerVars, sceneVars>>

\* Variant: a failure that drops the cached snapshot
GlobalFail_ClearsData ==
    /\ globalFetch.cur
    /\ globalCache' = [data |-> None, error |-> TRUE]
    /\ globalFetch' = [globalFetch EXCEPT !.cur = FALSE]
    /\ Log("global", NULL, "fail")
    /\ UNCHANGED <<ctlVars, filterVars, detailVars, listenerVars, sceneVars>>

\* fetchAPI throws (non-2xx or transport error): error set, data kept
GlobalFail ==
    /\ globalFetch.cur
    /\ globalCache' = [globalCache EXCEPT !.error = TRUE]
    /\ globalFetch' = [globalFetch EXCEPT !.cur = FALSE]
    /\ Log("global", NULL, "fail")
    /\ UNCHANGED <<ctlVars, filterVars, detailVars, listenerVars, sceneVars>>

\* Variant: the response of a superseded request written to the cache
GlobalStaleSettles_Applies ==
    /\ globalFetch.old > 0
    /\ globalFetch' = [globalFetch EXCEPT !.old = @ - 1]
    /\ globalCache' = [data |-> Some([countries |-> <<>>]), error |-> FALSE]
    /\ Log("global", NULL, "stale")
    /\ UNCHANGED <<ctlVars, filterVars, detailVars, listenerVars, sceneVars>>

\* A superseded request settles; its outcome is discarded
GlobalStaleSettles ==
    /\ globalFetch.old > 0
    /\ globalFetch' = [globalFetch EXCEPT !.old = @ - 1]
    /\ Log("global", NULL, "stale")
    /\ UNCHANGED <<ctlVars, filterVars, globalCache, detailVars, listenerVars, sceneVars>>

----------------------------------------------------------------------------
(* useCountryDetail(countryCode), called by each CountryPanel *)

\* Home passes its selection to the panels; with no selection no panel is
\* rendered, which leaves the hook without a key just as a null code does.
countryCode == selectedCountry

\* top_headlines embedded in a CountryDetail, and results of the headlines
\* endpoint, as lists of Headline ids
\* (ids 1 and 2 are headlines about Japan, 3 and 4 about the United States;
\* the endpoint may also find no headline, followed for Japan)
EmbeddedHeadlines(c) == IF c = "JP" THEN { <<1>> } ELSE { <<3>> }
HeadlineResults(c) == IF c = "JP" THEN { <<2>>, <<>> } ELSE { <<4>> }

CountryDetails(c) ==
    { [country_code |-> c, top_headlines |-> h] : h \in EmbeddedHeadlines(c) }

\* Variant: the entry of every code stays subscribed
DetailKeyActive_Ungated(c) == TRUE

\* countryCode ? `country-${countryCode}` : null  -- the entry of code c is
\* the hook's key exactly when this holds
DetailKeyActive(c) == countryCode # NULL /\ countryCode = c

\* countryCode ? `headlines-${countryCode}` : null
HeadlinesKeyActive(c) == countryCode # NULL /\ countryCode = c

\* What the two useSWR calls return as data (undefined for a null key)
countryData ==
    IF \E c \in Codes : DetailKeyActive(c)
    THEN detailCache[CHOOSE c \in Codes : DetailKeyActive(c)].data
    ELSE None

\* Variant: one headlines key shared by all countries
headlines_SharedKey ==
    IF countryCode # NULL /\ \E c \in Codes : IsSome(headlinesCache[c].data)
    THEN headlinesCache[CHOOSE c \in Codes : IsSome(headlinesCache[c].data)].data
    ELSE None

headlines ==
    IF \E c \in Codes : HeadlinesKeyActive(c)
    THEN headlinesCache[CHOOSE c \in Codes : HeadlinesKeyActive(c)].data
    ELSE None

\* Variant: an empty headlines result treated as missing
MergeHeadlines_EmptyFalsy(cd, hl) ==
    IF IsSome(hl) /\ Val(hl) # <<>> THEN Val(hl) ELSE cd.top_headlines

\* headlines || countryData.top_headlines  (an empty array is truthy)
MergeHeadlines(cd, hl) == IF IsSome(hl) THEN Val(hl) ELSE cd.top_headlines

\* The composite view model
data ==
    IF IsSome(countryData)
    THEN Some([Val(countryData) EXCEPT
                 !.top_headlines = MergeHeadlines(Val(countryData), headlines)])
    ELSE None

\* countryError and headlinesError: an error is present on the hook's key
countryError == \E c \in Codes : DetailKeyActive(c) /\ detailCache[c].error
headlinesError == \E c \in Codes : HeadlinesKeyActive(c) /\ headlinesCache[c].error

\* Variant: the headlines error taken first
error_HeadlinesFirst ==
    IF headlinesError THEN "headlines" ELSE IF countryError THEN "detail" ELSE "none"

\* error: countryError || headlinesError  -- which endpoint's error the
\* composite is, "none" for undefined
error ==
    IF countryError THEN "detail" ELSE IF headlinesError THEN "headlines" ELSE "none"

\* Variant: SWR's isValidating in place of isLoading
countryLoading_Validating == \E c \in Codes : DetailKeyActive(c) /\ detailFetch[c] > 0

\* SWR's isLoading of the detail key: a request is in flight and the key
\* has no data loaded yet
countryLoading ==
    \E c \in Codes :
        DetailKeyActive(c) /\ detailFetch[c] > 0 /\ ~IsSome(detailCache[c].data)

headlinesLoading ==
    \E c \in Codes :
        HeadlinesKeyActive(c) /\ headlinesFetch[c] > 0 /\ ~IsSome(headlinesCache[c].data)

\* isLoading: countryLoading || headlinesLoading
countryDetailLoading == countryLoading \/ headlinesLoading

\* Variant: every mounted panel's hook instance issues its own request
Deduped_PerPanel(n) == n < mountedPanels

\* SWR's deduplication: a revalidation while a request of the key is in
\* flight joins that request, whichever hook instance asks
Deduped(n) == n = 0

\* Mount with the key, poll tick (60 s) or focus, of either panel's instance
DetailRevalidate(c) ==
    /\ DetailKeyActive(c)
    /\ Deduped(detailFetch[c])
    /\ detailFetch' = [detailFetch EXCEPT ![c] = @ + 1]
    /\ Log("detail", c, "revalidate")
    /\ UNCHANGED <<ctlVars, filterVars, globalVars,
                   detailCache, headlinesCache, headlinesFetch, listenerVars, sceneVars>>

\* Variant: an error retry for a key whose last request did not fail
DetailErrorRetry_Always(c) ==
    /\ DetailKeyActive(c)
    /\ Deduped(detailFetch[c])
    /\ detailFetch' = [detailFetch EXCEPT ![c] = @ + 1]
    /\ Log("detail", c, "retry")
    /\ UNCHANGED <<ctlVars, filterVars, globalVars,
                   detailCache, headlinesCache, headlinesFetch, listenerVars, sceneVars>>

\* SWR's error retry of the key while a hook instance still subscribes to it
DetailErrorRetry(c) ==
    /\ DetailKeyActive(c)
    /\ detailCache[c].error
    /\ Deduped(detailFetch[c])
    /\ detailFetch' = [detailFetch EXCEPT ![c] = @ + 1]
    /\ Log("detail", c, "retry")
    /\ UNCHANGED <<ctlVars, filterVars, globalVars,
                   detailCache, headlinesCache, headlinesFetch, listenerVars, sceneVars>>

DetailResolve(c, v) ==
    /\ detailFetch[c] > 0
    /\ detailCache' = [detailCache EXCEPT ![c] = [data |-> Some(v), error |-> FALSE]]
    /\ detailFetch' = [detailFetch EXCEPT ![c] = @ - 1]
    /\ Log("detail", c, "ok")
    /\ UNCHANGED <<ctlVars, filterVars, globalVars, headlinesCache, headlinesFetch,
                   listenerVars, sceneVars>>

DetailFail(c) ==
    /\ detailFetch[c] > 0
    /\ detailCache' = [detailCache EXCEPT ![c].error = TRUE]
    /\ detailFetch' = [detailFetch EXCEPT ![c] = @ - 1]
    /\ Log("detail", c, "fail")
    /\ UNCHANGED <<ctlVars, filterVars, globalVars, headlinesCache, headlinesFetch,
                   listenerVars, sceneVars>>

HeadlinesRevalidate(c) ==
    /\ HeadlinesKeyActive(c)
    /\ Deduped(headlinesFetch[c])
    /\ headlinesFetch' = [headlinesFetch EXCEPT ![c] = @ + 1]
    /\ Log("headlines", c, "revalidate")
    /\ UNCHANGED <<ctlVars, filterVars, globalVars,
                   detailCache, detailFetch, headlinesCache, listenerVars, sceneVars>>

HeadlinesErrorRetry(c) ==
    /\ HeadlinesKeyActive(c)
    /\ headlinesCache[c].error
    /\ Deduped(headlinesFetch[c])
    /\ headlinesFetch' = [headlinesFetch EXCEPT ![c] = @ + 1]
    /\ Log("headlines", c, "retry")
    /\ UNCHANGED <<ctlVars, filterVars, globalVars,
                   detailCache, detailFetch, headlinesCache, listenerVars, sceneVars>>

HeadlinesResolve(c, h) ==
    /\ headlinesFetch[c] > 0
    /\ headlinesCache' = [headlinesCache EXCEPT ![c] = [data |-> Some(h), error |-> FALSE]]
    /\ headlinesFetch' = [headlinesFetch EXCEPT ![c] = @ - 1]
    /\ Log("headlines", c, "ok")
    /\ UNCHANGED <<ctlVars, filterVars, globalVars, detailCache, detailFetch,
                   listenerVars, sceneVars>>

HeadlinesFail(c) ==
    /\ headlinesFetch[c] > 0
    /\ headlinesCache' = [headlinesCache EXCEPT ![c].error = TRUE]
    /\ headlinesFetch' = [headlinesFetch EXCEPT ![c] = @ - 1]
    /\ Log("headlines", c, "fail")
    /\ UNCHANGED <<ctlVars, filterVars, globalVars, detailCache, detailFetch,
                   listenerVars, sceneVars>>

----------------------------------------------------------------------------
(* Home's keyboard effect beyond the selection: a new refresh function, unmount *)

\* A render in which useGlobalSentiment returns a new refresh function:
\* the dep changed, so the effect's cleanup and the effect run
RefreshChanges ==
    /\ mounted
    /\ refreshFn < MaxRefreshFns
    /\ refreshFn' = refreshFn + 1
    /\ keyListeners' = RunEffect(keyListeners, deps, Deps(selectedCountry, refreshFn + 1))
    /\ UNCHANGED <<mounted, pageVars, hookLog, sceneVars>>

\* Home unmounts: the cleanup of the last run of the effect
Unmount ==
    /\ mounted
    /\ mounted' = FALSE
    /\ keyListeners' = Cleanup(keyListeners, deps)
    /\ UNCHANGED <<refreshFn, pageVars, hookLog, sceneVars>>

----------------------------------------------------------------------------
(* GlobeMesh: auto-rotation and marker hover *)

RotationRate == 3       \* delta * 0.03 rad per second of frame delta, in 1e-5 rad per ms
Deltas == {16, 33}      \* frame deltas in ms (60 and 30 frames per second)

NoFrame == [delta |-> 0, hovered |-> NULL, from |-> 0, prev |-> NULL]

\* Variant: the markers taken from the filtered list
markers_Filtered ==
    LET HasCenter(c) == c.country_code \in countryCenters
    IN  SelectSeq(filteredCountries, HasCenter)

\* countries.map(c => countryCenters[c.country_code] ? {...} : null).filter(Boolean),
\* countries being Home's data?.countries || []
markers ==
    LET HasCenter(c) == c.country_code \in countryCenters
    IN  SelectSeq(countries, HasCenter)

\* The markers the globe renders: countries of the snapshot with a known centre
markerCodes == CodesOf(markers)

\* Variant: a rotation that ignores the hover
RotationStep_Always(h, delta) == delta * RotationRate

\* if (meshRef.current && !hovered) rotation.y += delta * 0.03
\* (the ref is attached as long as the mesh is mounted)
RotationStep(h, delta) == IF h = NULL THEN delta * RotationRate ELSE 0

\* useFrame((state, delta) => ...)
Frame(delta) ==
    /\ rotationY + delta * RotationRate <= MaxRotation
    /\ rotationY' = rotationY + RotationStep(hovered, delta)
    /\ lastFrame' = [delta |-> delta, hovered |-> hovered, from |-> rotationY,
                     prev |-> lastFrame.hovered]
    /\ UNCHANGED <<hovered, underPointer, cursor, colorVars, animVars,
                   pageVars, hookLog, listenerVars>>

\* Marker onPointerOver: setHovered(code); cursor = 'pointer'
PointerOver(c) ==
    /\ ~isLoading
    /\ c \in markerCodes \ underPointer
    /\ underPointer' = underPointer \cup {c}
    /\ hovered' = c
    /\ cursor' = "pointer"
    /\ UNCHANGED <<rotationY, lastFrame, colorVars, animVars, pageVars, hookLog, listenerVars>>

\* Variant: a pointer-leave that forgets to reset the cursor
PointerOut_KeepsCursor(c) ==
    /\ c \in underPointer
    /\ underPointer' = underPointer \ {c}
    /\ hovered' = NULL
    /\ UNCHANGED <<cursor, rotationY, lastFrame, colorVars, animVars, pageVars, hookLog, listenerVars>>

\* Variant: a pointer-leave that clears the hover only of its own marker
PointerOut_OnlyOwn(c) ==
    /\ c \in underPointer
    /\ underPointer' = underPointer \ {c}
    /\ hovered' = IF hovered = c THEN NULL ELSE hovered
    /\ cursor' = IF hovered = c THEN "auto" ELSE cursor
    /\ UNCHANGED <<rotationY, lastFrame, colorVars, animVars, pageVars, hookLog, listenerVars>>

\* Marker onPointerOut: setHovered(null); cursor = 'auto'
PointerOut(c) ==
    /\ c \in underPointer
    /\ underPointer' = underPointer \ {c}
    /\ hovered' = NULL
    /\ cursor' = "auto"
    /\ UNCHANGED <<rotationY, lastFrame, colorVars, animVars, pageVars, hookLog, listenerVars>>

----------------------------------------------------------------------------
(* interpolateSentimentColor, on scores in hundredths *)

\* Variant: a clamp that reflects a value beyond the range back into it
clamp_Reflects(value, min, max) ==
    IF value > max THEN 2 * max - value
    ELSE IF value < min THEN 2 * min - value ELSE value

\* Variant: no clamping
clamp_Off(value, min, max) == value

\* Math.min(Math.max(value, min), max)
clamp(value, min, max) ==
    LET lo == IF value > min THEN value ELSE min
    IN  IF lo < max THEN lo ELSE max

negative == [r |-> 196, g |-> 131, b |-> 122]
neutral == [r |-> 184, g |-> 168, b |-> 152]
positive == [r |-> 107, g |-> 142, b |-> 107]

\* Math.round of the fraction num / den (den > 0): the nearest integer,
\* a half rounded up
Round(num, den) == (2 * num + den) \div (2 * den)

\* Math.round(from + (to - from) * t), t in hundredths
Mix(from, to, t) == Round(100 * from + (to - from) * t, 100)

\* The branch taken for s < 0, as a function of t = s + 1
NegativeBranch(t) ==
    [r |-> Mix(negative.r, neutral.r, t),
     g |-> Mix(negative.g, neutral.g, t),
     b |-> Mix(negative.b, neutral.b, t)]

\* The branch taken for s >= 0, as a function of t = s
NonNegativeBranch(t) ==
    [r |-> Mix(neutral.r, positive.r, t),
     g |-> Mix(neutral.g, positive.g, t),
     b |-> Mix(neutral.b, positive.b, t)]

\* The colour as its three channels; the source formats them as rgb(r, g, b)
interpolateSentimentColor(score) ==
    LET s == clamp(score, -100, 100)
    IN  IF s < 0 THEN NegativeBranch(s + 100) ELSE NonNegativeBranch(s)

Scores == (0 - ScoreMax)..ScoreMax

\* getSentimentColor, on a score in hundredths
getSentimentColor(score) ==
    IF score > 20 THEN "var(--positive)"
    ELSE IF score < -20 THEN "var(--negative)"
    ELSE "var(--neutral)"

\* getSentimentLabel, on a score in hundredths
getSentimentLabel(score) ==
    IF score >= 20 THEN "Positive"
    ELSE IF score >= 5 THEN "Leaning Positive"
    ELSE IF score > -5 THEN "Neutral"
    ELSE IF score > -20 THEN "Leaning Negative"
    ELSE "Negative"

\* A component rendered with the score colours and labels it
Recolor ==
    /\ color' = Some(interpolateSentimentColor(colorScore))
    /\ sentimentColor' = Some(getSentimentColor(colorScore))
    /\ label' = Some(getSentimentLabel(colorScore))
    /\ UNCHANGED <<colorScore, pageVars, hookLog, listenerVars, globeVars, animVars>>

-----------------------------------------------------------------------------
(* AnimatedNumber: the count-up of a statistic in the stats bar.            *)

\* const steps = 20
steps == 20

\* Variant: a cleanup that clears nothing
AnimCleanup_Missing(timers) == timers

\* The cleanup the effect returned: clearInterval of the timer that the
\* effect run for the current value started (none for value 0)
AnimCleanup(timers) ==
    LET Other(t) == t.value # animValue
    IN SelectSeq(timers, Other)

\* The effect body for a value: nothing to time for 0, else setInterval
\* with step = 0 in its closure
AnimEffect(v, timers) ==
    IF v = 0 THEN timers ELSE Append(timers, [value |-> v, step |-> 0])

\* current = Math.min(Math.round(increment * step), value)
Current(v, step) ==
    LET r == Round(v * step, steps)
    IN IF r < v THEN r ELSE v

\* The timers without timer i (clearInterval)
RemoveAt(s, i) == [j \in 1..(Len(s) - 1) |-> IF j < i THEN s[j] ELSE s[j + 1]]

\* The parent renders AnimatedNumber with another value: the effect's
\* cleanup runs, then its body for the new value
SetValue(v) ==
    /\ animMounted
    /\ v # animValue
    /\ valueChanges < MaxValueChanges
    /\ animValue' = v
    /\ valueChanges' = valueChanges + 1
    /\ animTimers' = AnimEffect(v, AnimCleanup(animTimers))
    /\ displayValue' = IF v = 0 THEN 0 ELSE displayValue
    /\ UNCHANGED <<animMounted, pageVars, hookLog, listenerVars, globeVars, colorVars>>

\* The interval callback of timer i
Tick(i) ==
    /\ i \in DOMAIN animTimers
    /\ LET t == animTimers[i]
           step == t.step + 1
       IN /\ displayValue' = IF step >= steps THEN t.value
                             ELSE Current(t.value, step)
          /\ animTimers' = IF step >= steps THEN RemoveAt(animTimers, i)
                           ELSE [animTimers EXCEPT ![i].step = step]
    /\ UNCHANGED <<animValue, animMounted, valueChanges,
                   pageVars, hookLog, listenerVars, globeVars, colorVars>>

\* The stats bar unmounts: the effect's cleanup runs
AnimUnmount ==
    /\ animMounted
    /\ animMounted' = FALSE
    /\ animTimers' = AnimCleanup(animTimers)
    /\ UNCHANGED <<animValue, displayValue, valueChanges,
                   pageVars, hookLog, listenerVars, globeVars, colorVars>>

\* AnimatedNumber as first rendered, before any snapshot: value 0, no timer
AnimRest ==
    /\ animValue = 0
    /\ displayValue = 0
    /\ animTimers = <<>>
    /\ animMounted = TRUE
    /\ valueChanges = 0

----------------------------------------------------------------------------
(* Specification of the dashboard page *)

NoEntry == [data |-> None, error |-> FALSE]
NoSelect == [via |-> "none", code |-> NULL, arg |-> "none", was |-> NULL, overClear |-> FALSE]

\* Outside the page state: Home mounted with its keyboard effect run once
\* for the state it was rendered with; the globe at rest, no marker
\* hovered; a neutral score not yet coloured.
AsideInit ==
    /\ mounted = TRUE
    /\ refreshFn = 0
    /\ keyListeners = <<deps>>
    /\ hovered = NULL
    /\ underPointer = {}
    /\ cursor = "auto"
    /\ rotationY = 0
    /\ lastFrame = NoFrame
    /\ colorScore = 0
    /\ color = None
    /\ sentimentColor = None
    /\ label = None
    /\ AnimRest

Init ==
    /\ selectedCountry = NULL
    /\ showPanel = FALSE
    /\ sentimentFilter = "all"
    /\ clearTimers = 0
    /\ globalCache = NoEntry
    /\ globalFetch = [cur |-> TRUE, old |-> 0]
    /\ detailCache = [c \in Codes |-> NoEntry]
    /\ detailFetch = [c \in Codes |-> 0]
    /\ headlinesCache = [c \in Codes |-> NoEntry]
    /\ headlinesFetch = [c \in Codes |-> 0]
    /\ lastSel = NoSelect
    /\ lastFilter = [bucket |-> "none", was |-> "all"]
    /\ hookLog = LogOff
    /\ AsideInit

\* The selection events of the controller
CtlNext ==
    \/ \E c \in Codes : ListClick(c)
    \/ \E c \in Codes : MarkerClick(c)
    \/ PanelClose
    \/ KeyEscape
    \/ ClearTimerFires

Next ==
    \/ CtlNext
    \/ \E b \in Buckets : BucketClick(b)
    \/ ClearFilterClick
    \/ GlobalRevalidate
    \/ GlobalErrorRetry
    \/ \E viaKey \in BOOLEAN : GlobalRefresh(viaKey)
    \/ \E snap \in Snapshots : GlobalResolve(snap)
    \/ GlobalFail
    \/ GlobalStaleSettles

Spec == Init /\ [][Next]_vars


----------------------------------------------------------------------------
(* Specification of the country panel: the controller together with the    *)
(* detail and headlines hooks, started from a loaded global snapshot that  *)
(* lists both countries.                                                   *)

LoadedSnapshot ==
    [countries |-> << [country_code |-> "JP", sentiment_score |-> 21, trend |-> 4],
                      [country_code |-> "US", sentiment_score |-> 20, trend |-> NoTrend] >>]

PanelInit ==
    /\ selectedCountry = NULL
    /\ showPanel = FALSE
    /\ sentimentFilter = "all"
    /\ clearTimers = 0
    /\ globalCache = [data |-> Some(LoadedSnapshot), error |-> FALSE]
    /\ globalFetch = [cur |-> FALSE, old |-> 0]
    /\ detailCache = [c \in Codes |-> NoEntry]
    /\ detailFetch = [c \in Codes |-> 0]
    /\ headlinesCache = [c \in Codes |-> NoEntry]
    /\ headlinesFetch = [c \in Codes |-> 0]
    /\ lastSel = NoSelect
    /\ lastFilter = [bucket |-> "none", was |-> "all"]
    /\ hookLog = LogOff
    /\ AsideInit

PanelNext ==
    \/ CtlNext
    \/ \E c \in Codes : DetailRevalidate(c)
    \/ \E c \in Codes : \E v \in CountryDetails(c) : DetailResolve(c, v)
    \/ \E c \in Codes : DetailFail(c)
    \/ \E c \in Codes : DetailErrorRetry(c)
    \/ \E c \in Codes : HeadlinesErrorRetry(c)
    \/ \E c \in Codes : HeadlinesRevalidate(c)
    \/ \E c \in Codes : \E h \in HeadlineResults(c) : HeadlinesResolve(c, h)
    \/ \E c \in Codes : HeadlinesFail(c)

PanelSpec == PanelInit /\ [][PanelNext]_vars

LiveNext ==
    \/ CtlNext
    \/ \E b \in Buckets : BucketClick(b)
    \/ ClearFilterClick

\* The selection and filter events alone, from the same loaded snapshot,
\* with the fairness the event loop gives a scheduled timeout: it fires.
LiveSpec == PanelInit /\ [][LiveNext]_vars /\ WF_vars(ClearTimerFires)

----------------------------------------------------------------------------
(* Specification of the data hooks: the three SWR keys of a page that has  *)
(* loaded a snapshot and has Japan selected from the list, so that both    *)
(* country panels are mounted; the hook log is on.                         *)

HooksInit ==
    /\ selectedCountry = "JP"
    /\ showPanel = TRUE
    /\ sentimentFilter = "all"
    /\ clearTimers = 0
    /\ globalCache = [data |-> Some(LoadedSnapshot), error |-> FALSE]
    /\ globalFetch = [cur |-> FALSE, old |-> 0]
    /\ detailCache = [c \in Codes |-> NoEntry]
    /\ detailFetch = [c \in Codes |-> 0]
    /\ headlinesCache = [c \in Codes |-> NoEntry]
    /\ headlinesFetch = [c \in Codes |-> 0]
    /\ lastSel = [via |-> "list", code |-> "JP", arg |-> "JP", was |-> NULL,
                  overClear |-> FALSE]
    /\ lastFilter = [bucket |-> "none", was |-> "all"]
    /\ hookLog = LogNone
    /\ AsideInit

HooksNext ==
    \/ GlobalRevalidate
    \/ GlobalErrorRetry
    \/ \E viaKey \in BOOLEAN : GlobalRefresh(viaKey)
    \/ \E snap \in Snapshots : GlobalResolve(snap)
    \/ GlobalFail
    \/ GlobalStaleSettles
    \/ \E c \in Codes : DetailRevalidate(c)
    \/ \E c \in Codes : DetailErrorRetry(c)
    \/ \E c \in Codes : \E v \in CountryDetails(c) : DetailResolve(c, v)
    \/ \E c \in Codes : DetailFail(c)
    \/ \E c \in Codes : HeadlinesRevalidate(c)
    \/ \E c \in Codes : HeadlinesErrorRetry(c)
    \/ \E c \in Codes : \E h \in HeadlineResults(c) : HeadlinesResolve(c, h)
    \/ \E c \in Codes : HeadlinesFail(c)

HooksSpec == HooksInit /\ [][HooksNext]_vars

----------------------------------------------------------------------------
(* Specification of the keyboard effect: the selection events with renders *)
(* that change the refresh function, and the unmount of Home.              *)

ListenerNext ==
    \/ CtlNext
    \/ RefreshChanges
    \/ Unmount

ListenerSpec == PanelInit /\ [][ListenerNext]_vars

----------------------------------------------------------------------------
(* Specification of the globe: frames and pointer events over the markers  *)
(* of the loaded snapshot.                                                 *)

GlobeNext ==
    \/ \E delta \in Deltas : Frame(delta)
    \/ \E c \in Codes : PointerOver(c)
    \/ \E c \in Codes : PointerOut(c)

GlobeSpec == PanelInit /\ [][GlobeNext]_vars

----------------------------------------------------------------------------
(* Specification of the markers: a snapshot that may list New Zealand,     *)
(* which the centre table lacks, under filter clicks and pointer events.   *)

MarkerData ==
    { [country_code |-> "JP", sentiment_score |-> 21,  trend |-> 4],
      [country_code |-> "US", sentiment_score |-> -21, trend |-> -2],
      [country_code |-> "NZ", sentiment_score |-> 0,   trend |-> NoTrend] }

MarkerSnapshots ==
    { [countries |-> cs] :
        cs \in { l \in UNION { [1..n -> MarkerData] : n \in 0..Cardinality(MarkerData) } :
                   \A i, j \in 1..Len(l) : i # j => l[i].country_code # l[j].country_code } }

MarkerInit ==
    /\ selectedCountry = NULL
    /\ showPanel = FALSE
    /\ sentimentFilter = "all"
    /\ clearTimers = 0
    /\ globalCache \in { [data |-> Some(snap), error |-> FALSE] : snap \in MarkerSnapshots }
    /\ globalFetch = [cur |-> FALSE, old |-> 0]
    /\ detailCache = [c \in Codes |-> NoEntry]
    /\ detailFetch = [c \in Codes |-> 0]
    /\ headlinesCache = [c \in Codes |-> NoEntry]
    /\ headlinesFetch = [c \in Codes |-> 0]
    /\ lastSel = NoSelect
    /\ lastFilter = [bucket |-> "none", was |-> "all"]
    /\ hookLog = LogOff
    /\ AsideInit

MarkerNext ==
    \/ \E b \in Buckets : BucketClick(b)
    \/ ClearFilterClick
    \/ \E c \in Codes : PointerOver(c)
    \/ \E c \in Codes : PointerOut(c)

MarkerSpec == MarkerInit /\ [][MarkerNext]_vars

----------------------------------------------------------------------------
(* Specification of switching countries: list clicks move the selection    *)
(* between countries while the detail and headlines requests of either     *)
(* country start and settle in any order; the hook log is on.              *)

SwitchInit ==
    /\ selectedCountry = NULL
    /\ showPanel = FALSE
    /\ sentimentFilter = "all"
    /\ clearTimers = 0
    /\ globalCache = [data |-> Some(LoadedSnapshot), error |-> FALSE]
    /\ globalFetch = [cur |-> FALSE, old |-> 0]
    /\ detailCache = [c \in Codes |-> NoEntry]
    /\ detailFetch = [c \in Codes |-> 0]
    /\ headlinesCache = [c \in Codes |-> NoEntry]
    /\ headlinesFetch = [c \in Codes |-> 0]
    /\ lastSel = NoSelect
    /\ lastFilter = [bucket |-> "none", was |-> "all"]
    /\ hookLog = LogNone
    /\ AsideInit

SwitchNext ==
    \/ \E c \in Codes : ListClick(c)
    \/ \E c \in Codes : DetailRevalidate(c)
    \/ \E c \in Codes : DetailErrorRetry(c)
    \/ \E c \in Codes : \E v \in CountryDetails(c) : DetailResolve(c, v)
    \/ \E c \in Codes : DetailFail(c)
    \/ \E c \in Codes : HeadlinesRevalidate(c)
    \/ \E c \in Codes : HeadlinesErrorRetry(c)
    \/ \E c \in Codes : \E h \in HeadlineResults(c) : HeadlinesResolve(c, h)
    \/ \E c \in Codes : HeadlinesFail(c)

SwitchSpec == SwitchInit /\ [][SwitchNext]_vars

----------------------------------------------------------------------------
(* Specification of the colour mapper: any score of the range, coloured.   *)

ColorInit ==
    /\ selectedCountry = NULL
    /\ showPanel = FALSE
    /\ sentimentFilter = "all"
    /\ clearTimers = 0
    /\ globalCache = [data |-> Some(LoadedSnapshot), error |-> FALSE]
    /\ globalFetch = [cur |-> FALSE, old |-> 0]
    /\ detailCache = [c \in Codes |-> NoEntry]
    /\ detailFetch = [c \in Codes |-> 0]
    /\ headlinesCache = [c \in Codes |-> NoEntry]
    /\ headlinesFetch = [c \in Codes |-> 0]
    /\ lastSel = NoSelect
    /\ lastFilter = [bucket |-> "none", was |-> "all"]
    /\ hookLog = LogOff
    /\ mounted = TRUE
    /\ refreshFn = 0
    /\ keyListeners = <<deps>>
    /\ hovered = NULL
    /\ underPointer = {}
    /\ cursor = "auto"
    /\ rotationY = 0
    /\ lastFrame = NoFrame
    /\ colorScore \in Scores
    /\ color = None
    /\ sentimentColor = None
    /\ label = None
    /\ AnimRest

ColorNext == Recolor

ColorSpec == ColorInit /\ [][ColorNext]_vars

----------------------------------------------------------------------------
(* Properties *)

\* C1: whenever the panel is visible a country is selected
\* (panelVisible => selectedCountry # null) in every reachable state.
C1_PanelImpliesSelection == showPanel => selectedCountry # NULL

\* C2: when a country is selected while a clear is still pending, the clear
\* is cancelled: until the next select call the selection stays that country
\* and the panel stays visible.
C2_PendingClearCancelled ==
    (lastSel.arg \in Codes /\ lastSel.overClear)
        => (selectedCountry = lastSel.arg /\ showPanel)

\* C3: a select call with a country sets selectedCountry to it and shows the
\* panel in the same step, whatever was selected before; and when no clear
\* was pending at that call (in particular when a is followed by b with no
\* select(null) before or between), the selection stays b and the panel
\* stays visible until the next select call.
C3_SelectApplies ==
    /\ [][ (lastSel' # lastSel /\ lastSel'.arg \in Codes)
              => (selectedCountry' = lastSel'.arg /\ showPanel') ]_vars
    /\ []( (lastSel.arg \in Codes /\ ~lastSel.overClear)
              => (selectedCountry = lastSel.arg /\ showPanel) )

C3_Witness ==
    /\ lastSel.arg = "US" /\ lastSel.was = "JP" /\ ~lastSel.overClear
    /\ selectedCountry = "US" /\ showPanel /\ clearTimers = 0

\* C4: select(null) hides the panel in the same step and leaves
\* selectedCountry as it is; selectedCountry goes from a country to null
\* only in a step in which a clear timer fires; and after a select(null)
\* selectedCountry eventually is null.
C4_DeferredClear ==
    /\ [][ (lastSel' # lastSel /\ lastSel'.arg = NULL)
              => (~showPanel' /\ selectedCountry' = selectedCountry) ]_vars
    /\ [][ (selectedCountry # NULL /\ selectedCountry' = NULL)
              => (clearTimers' = clearTimers - 1 /\ lastSel' = lastSel) ]_vars
    /\ ((lastSel.arg = NULL) ~> (selectedCountry = NULL))

C4_Witness ==
    /\ lastSel.arg = NULL /\ lastSel.was = "JP"
    /\ ~showPanel /\ selectedCountry = "JP" /\ clearTimers = 1

C6_FilterToggles ==
    /\ sentimentFilter \in Filters
    /\ lastFilter.bucket \in Buckets
          => sentimentFilter = (IF lastFilter.was = lastFilter.bucket THEN "all"
                                                                      ELSE lastFilter.bucket)
    /\ lastFilter.bucket = "clear" => sentimentFilter = "all"

C6_Witness ==
    /\ lastFilter.bucket = "neutral" /\ lastFilter.was = "neutral"
    /\ sentimentFilter = "all"

\* C7: the positive, negative and neutral buckets partition the country
\* list: every country is in exactly one of them and the three counts add
\* up to the length of the list.
C7_BucketsPartition ==
    LET InBucket(c, b) ==
            \E i \in 1..Len(b) : b[i] = c
        BucketsOf(c) ==
            (IF InBucket(c, positiveCountries) THEN 1 ELSE 0)
          + (IF InBucket(c, negativeCountries) THEN 1 ELSE 0)
          + (IF InBucket(c, neutralCountries) THEN 1 ELSE 0)
    IN  /\ positiveCount + negativeCount + neutralCount = Len(countries)
        /\ \A i \in 1..Len(countries) : BucketsOf(countries[i]) = 1

C7_Witness ==
    /\ Len(countries) >= 2
    /\ positiveCount >= 1
    /\ \E i \in 1..Len(countries) : countries[i].sentiment_score = 20
    /\ neutralCount = Len(countries) - 1

\* C8: the global trend is the arithmetic mean of the trends of all
\* countries of the latest snapshot, a missing trend counting as 0, under
\* every filter.
C8_GlobalTrendIsMeanOfAll ==
    IsSome(globalCache.data) /\ Val(globalCache.data).countries # <<>> =>
        LET all == Val(globalCache.data).countries
            term(i) == IF all[i].trend = NoTrend THEN 0 ELSE all[i].trend
            total[I \in SUBSET (1..Len(all))] ==
                IF I = {} THEN 0
                ELSE LET i == CHOOSE j \in I : TRUE
                     IN  term(i) + total[I \ {i}]
        IN  /\ IsSome(globalTrend)
            /\ Val(globalTrend).count > 0
            /\ Val(globalTrend).sum * Len(all)
                   = total[1..Len(all)] * Val(globalTrend).count

C8_Witness ==
    /\ sentimentFilter = "positive"
    /\ Len(countries) = 2 /\ Len(filteredCountries) = 1
    /\ \E i \in 1..Len(countries) : countries[i].trend = NoTrend
    /\ IsSome(globalTrend) /\ Val(globalTrend).sum = 4

\* C9: for a selected country whose detail has resolved, the composite's
\* headline list is the headlines endpoint's result once that has resolved
\* and the detail's embedded top_headlines until then.
C9_HeadlinesEndpointWins ==
    \A c \in Codes :
        (countryCode = c /\ IsSome(detailCache[c].data)) =>
            /\ IsSome(data)
            /\ Val(data).top_headlines =
                  (IF IsSome(headlinesCache[c].data)
                   THEN Val(headlinesCache[c].data)
                   ELSE Val(detailCache[c].data).top_headlines)

C9_Witness ==
    /\ countryCode = "JP"
    /\ IsSome(detailCache["JP"].data)
    /\ Val(detailCache["JP"].data).top_headlines = <<1>>
    /\ headlinesCache["JP"].data = Some(<<>>)
    /\ data = Some([country_code |-> "JP", top_headlines |-> <<>>])

\* C10: while the country code is null the hook's data is absent and no
\* request for a detail or a headlines key is started.
C10_NullCodeIdle ==
    /\ [](countryCode = NULL => data = None)
    /\ [][ countryCode = NULL =>
              \A c \in Codes : /\ detailFetch'[c] <= detailFetch[c]
                               /\ headlinesFetch'[c] <= headlinesFetch[c] ]_vars

C10_Witness ==
    /\ countryCode = NULL /\ lastSel.arg = NULL
    /\ \E c \in Codes : /\ IsSome(detailCache[c].data)
                        /\ IsSome(headlinesCache[c].data)
    /\ data = None

\* C11: a request that fails sets the error flag of its key and leaves the
\* key's data as it was; no step turns loaded data of a key into absent
\* data.
C11_FailureKeepsData ==
    /\ [][ (globalFetch.cur /\ ~globalFetch'.cur /\ hookLog'.ev = "fail")
              => (globalCache'.error /\ globalCache'.data = globalCache.data) ]_vars
    /\ [][ \A c \in Codes :
              (detailFetch'[c] < detailFetch[c] /\ hookLog'.ev = "fail")
                 => (detailCache'[c].error
                     /\ detailCache'[c].data = detailCache[c].data) ]_vars
    /\ [][ /\ IsSome(globalCache.data) => IsSome(globalCache'.data)
           /\ \A c \in Codes :
                 /\ IsSome(detailCache[c].data) => IsSome(detailCache'[c].data)
                 /\ IsSome(headlinesCache[c].data) => IsSome(headlinesCache'[c].data)
         ]_vars

C11_Witness ==
    /\ hookLog = [key |-> "global", code |-> NULL, ev |-> "fail"]
    /\ globalCache.error
    /\ globalCache.data = Some([countries |-> <<>>])
    /\ ~globalFetch.cur

\* C12 (as stated): when the second of the two fetches of the selected
\* country fails while the error of the other is standing, the composite
\* error stays the error that was there first.
C12_FirstErrorWins ==
    [][ \A c \in Codes :
          ( /\ countryCode = c
            /\ detailCache[c].error # headlinesCache[c].error
            /\ detailCache'[c].error /\ headlinesCache'[c].error )
          => error' = error ]_vars

\* C12 (amended): the composite error is the detail endpoint's error
\* whenever the detail fetch has failed, whichever failed first, and the
\* headlines endpoint's error only when the detail fetch has not failed.
C12_DetailErrorWins ==
    \A c \in Codes :
        countryCode = c =>
            error = (IF detailCache[c].error THEN "detail"
                     ELSE IF headlinesCache[c].error THEN "headlines"
                     ELSE "none")

C12_Witness ==
    /\ countryCode = "JP"
    /\ hookLog = [key |-> "detail", code |-> "JP", ev |-> "fail"]
    /\ detailCache["JP"].error /\ headlinesCache["JP"].error
    /\ ~IsSome(detailCache["JP"].data)
    /\ error = "detail"

\* C13 (as stated): the composite isLoading of the selected country's hook
\* is true exactly in the states in which its detail request or its
\* headlines request is in flight, background refreshes included.
C13_LoadingWhileInFlight ==
    \A c \in Codes :
        countryCode = c =>
            (countryDetailLoading <=> (detailFetch[c] > 0 \/ headlinesFetch[c] > 0))

\* C13 (amended): the composite isLoading is true exactly when the detail
\* request or the headlines request is in flight for an endpoint that has
\* no data loaded yet; a background refresh of loaded data does not raise
\* it, and it is false when neither request is in flight.
C13_LoadingWhileNothingLoaded ==
    \A c \in Codes :
        countryCode = c =>
            (countryDetailLoading <=>
                \/ detailFetch[c] > 0 /\ ~IsSome(detailCache[c].data)
                \/ headlinesFetch[c] > 0 /\ ~IsSome(headlinesCache[c].data))

C13_Witness ==
    /\ countryCode = "JP"
    /\ IsSome(detailCache["JP"].data) /\ IsSome(headlinesCache["JP"].data)
    /\ detailFetch["JP"] = 1
    /\ hookLog = [key |-> "detail", code |-> "JP", ev |-> "revalidate"]
    /\ ~countryDetailLoading

\* C14 (as stated): at most one request is in flight per cache key.
C14_OneFetchPerKey ==
    /\ GlobalInFlight <= 1
    /\ \A c \in Codes : detailFetch[c] <= 1 /\ headlinesFetch[c] <= 1

\* C14 (amended): at most one request is in flight per country-detail key
\* and per headlines key, with both panels mounting the hook for the
\* selected country; for the global key a second request is in flight only
\* after a manual refresh has superseded a running request.
C14_DedupedExceptRefresh ==
    /\ [](\A c \in Codes : detailFetch[c] <= 1 /\ headlinesFetch[c] <= 1)
    /\ [](GlobalInFlight > 1 => globalFetch.old >= 1)
    /\ [][ globalFetch'.old > globalFetch.old
              => (globalFetch.cur /\ hookLog'.ev = "refresh") ]_vars

C14_Witness ==
    /\ mountedPanels = 2
    /\ detailFetch["JP"] = 1 /\ headlinesFetch["JP"] = 1
    /\ hookLog = [key |-> "global", code |-> NULL, ev |-> "refresh"]
    /\ GlobalInFlight = 2

\* C15: the response of a superseded request of the global key leaves the
\* cache as it is, and the cached data changes only in a step in which the
\* latest issued request settles.
C15_StaleResponseDiscarded ==
    /\ [][ globalFetch'.old < globalFetch.old => globalCache' = globalCache ]_vars
    /\ [][ globalCache'.data # globalCache.data
              => (globalFetch.cur /\ ~globalFetch'.cur) ]_vars

C15_Witness ==
    /\ hookLog = [key |-> "global", code |-> NULL, ev |-> "stale"]
    /\ ~globalFetch.cur /\ globalFetch.old = 0
    /\ ~globalCache.error
    /\ globalCache.data = Some([countries |-> <<>>])

C17_RotatesUnlessHovered ==
    /\ [](rotationY = lastFrame.from
                       + (IF lastFrame.hovered = NULL THEN 3 * lastFrame.delta ELSE 0))
    /\ [][ rotationY' # rotationY => (hovered = NULL /\ lastFrame' # lastFrame) ]_vars
    /\ [][ (lastFrame' # lastFrame /\ hovered # NULL) => rotationY' = rotationY ]_vars

C17_Witness ==
    /\ lastFrame.prev = "JP" /\ lastFrame.hovered = NULL
    /\ lastFrame.delta = 33 /\ lastFrame.from = 48
    /\ rotationY = 147

\* C18: an Escape press with a country selected hides the panel in the same
\* step, leaves selectedCountry to the clear timers, and selectedCountry
\* eventually is null; with no country selected an Escape press makes no
\* select call, and no step schedules a clear.
C18_EscapeClears ==
    /\ [](lastSel.via = "escape" => (lastSel.was # NULL /\ lastSel.arg = NULL))
    /\ [][ (lastSel' # lastSel /\ lastSel'.via = "escape")
              => /\ ~showPanel'
                 /\ selectedCountry' = selectedCountry
                 /\ clearTimers' > clearTimers ]_vars
    /\ [][ selectedCountry = NULL => clearTimers' <= clearTimers ]_vars
    /\ ((lastSel.via = "escape") ~> (selectedCountry = NULL))

C18_Witness ==
    /\ lastSel.via = "escape" /\ lastSel.was = "US"
    /\ selectedCountry = NULL /\ ~showPanel /\ clearTimers = 0

\* C19: while Home is mounted exactly one keydown handler is registered,
\* the one that captured the current selection and refresh function; after
\* unmount none is registered.
C19_OneKeyListener ==
    /\ mounted => (Len(keyListeners) = 1
                   /\ keyListeners[1] = [sel |-> selectedCountry, fn |-> refreshFn])
    /\ ~mounted => keyListeners = <<>>

C19_Witness ==
    /\ ~mounted /\ keyListeners = <<>>
    /\ refreshFn = 2
    /\ lastSel.arg = "US" /\ lastSel.was = "JP" /\ selectedCountry = "US"

C21_ChannelsMonotone ==
    IsSome(color) =>
        \A s2 \in Scores :
            LET c1 == Val(color)
                c2 == interpolateSentimentColor(s2)
            IN  /\ (colorScore < s2 /\ s2 <= 0)
                      => (c1.r >= c2.r /\ c1.g <= c2.g /\ c1.b <= c2.b)
                /\ (0 <= colorScore /\ colorScore < s2)
                      => (c1.r >= c2.r /\ c1.g >= c2.g /\ c1.b >= c2.b)

C21_Witness ==
    /\ colorScore = -4
    /\ color = Some([r |-> 184, g |-> 167, b |-> 151])
    /\ interpolateSentimentColor(-3) = [r |-> 184, g |-> 167, b |-> 151]
    /\ interpolateSentimentColor(0) = [r |-> 184, g |-> 168, b |-> 152]

\* C22: at most one deferred selection-clear timer is pending at any time.
C22_AtMostOneClearTimer == clearTimers <= 1

\* C23: in every state the list handed to CountryList is the countries of
\* the snapshot now in the cache that satisfy the active filter's bucket
\* predicate, in snapshot order (all of them under "all", none while no
\* snapshot is loaded); no row comes from anywhere else, so none of a
\* replaced snapshot remains.
C23_ListFromLatestSnapshot ==
    LET Keep(c) ==
            \/ sentimentFilter = "all"
            \/ sentimentFilter = "positive" /\ c.sentiment_score > 20
            \/ sentimentFilter = "negative" /\ c.sentiment_score < -20
            \/ sentimentFilter = "neutral"
                  /\ c.sentiment_score >= -20 /\ c.sentiment_score <= 20
    IN  filteredCountries =
           (IF IsSome(globalCache.data)
            THEN SelectSeq(Val(globalCache.data).countries, Keep)
            ELSE <<>>)

C23_Witness ==
    /\ sentimentFilter = "neutral"
    /\ Len(countries) = 2
    /\ globalCache.error
    /\ filteredCountries =
          << [country_code |-> "US", sentiment_score |-> 20, trend |-> NoTrend] >>

\* C24: the globe has exactly one marker for each country of the snapshot
\* whose code has a centre and none for a country without one (New Zealand
\* here), whatever the filter; every marker is a country of the snapshot.
C24_MarkersOfFullSnapshot ==
    LET snap == IF IsSome(globalCache.data) THEN Val(globalCache.data).countries
                                             ELSE <<>>
        MarkersOf(code) ==
            Cardinality({ i \in 1..Len(markers) : markers[i].country_code = code })
    IN  /\ \A i \in 1..Len(snap) :
              MarkersOf(snap[i].country_code)
                  = (IF snap[i].country_code \in {"JP", "US"} THEN 1 ELSE 0)
        /\ \A i \in 1..Len(markers) : \E j \in 1..Len(snap) : markers[i] = snap[j]

C24_Witness ==
    /\ sentimentFilter = "neutral"
    /\ CodesOf(countries) = {"JP", "US", "NZ"}
    /\ CodesOf(filteredCountries) = {"NZ"}
    /\ Len(markers) = 2
    /\ CodesOf(markers) = {"JP", "US"}

\* C25: after any pointer-enter and pointer-leave events on markers the
\* cursor is 'pointer' exactly when a marker is recorded as hovered and
\* 'auto' otherwise.
C25_CursorFollowsHover ==
    /\ cursor \in {"pointer", "auto"}
    /\ cursor = "pointer" <=> hovered # NULL

C25_Witness ==
    /\ underPointer = {"JP", "US"}
    /\ hovered = "US" /\ cursor = "pointer"
    /\ lastFrame.hovered = "JP"

\* C27: hovered holds at most one marker: a pointer-enter on a marker makes
\* it the hovered one, replacing any other, and a pointer-leave from any
\* marker leaves no marker hovered, also when another one was recorded.
C27_SingleHover ==
    /\ [](hovered \in {NULL} \cup markerCodes)
    /\ [][ \A c \in Codes :
              (c \in underPointer' /\ c \notin underPointer) => hovered' = c ]_vars
    /\ [][ \A c \in Codes :
              (c \in underPointer /\ c \notin underPointer') => hovered' = NULL ]_vars

C27_Witness ==
    /\ underPointer = {"US"}
    /\ hovered = NULL /\ cursor = "auto"
    /\ lastFrame.hovered = "US" /\ lastFrame.prev = "JP"

\* C26: in every state the composite is of the selected country alone: its
\* country_code is the selected code and its headlines are headlines about
\* that country, whatever country was selected before and whichever
\* responses have arrived.
C26_CompositeOfOneCountry ==
    LET About(c) == IF c = "JP" THEN {1, 2} ELSE {3, 4}
    IN  IsSome(data) =>
            /\ countryCode \in Codes
            /\ Val(data).country_code = countryCode
            /\ \A i \in 1..Len(Val(data).top_headlines) :
                  Val(data).top_headlines[i] \in About(countryCode)

C26_Witness ==
    /\ countryCode = "US" /\ lastSel.was = "JP"
    /\ hookLog = [key |-> "headlines", code |-> "JP", ev |-> "ok"]
    /\ headlinesCache["JP"].data = Some(<<2>>)
    /\ ~IsSome(headlinesCache["US"].data)
    /\ data = Some([country_code |-> "US", top_headlines |-> <<3>>])

\* C28: a step that changes the filter leaves selectedCountry and showPanel
\* as they are; a step that changes the selection, the panel or the clear
\* timers leaves the filter as it is; a step of the global hook (a request
\* starting or settling) leaves all three as they are.
C28_FrameEffects ==
    /\ [][ sentimentFilter' # sentimentFilter
              => (selectedCountry' = selectedCountry /\ showPanel' = showPanel) ]_vars
    /\ [][ ( \/ selectedCountry' # selectedCountry
             \/ showPanel' # showPanel
             \/ clearTimers' # clearTimers )
              => sentimentFilter' = sentimentFilter ]_vars
    /\ [][ (globalCache' # globalCache \/ globalFetch' # globalFetch)
              => /\ selectedCountry' = selectedCountry
                 /\ showPanel' = showPanel
                 /\ sentimentFilter' = sentimentFilter ]_vars

C28_Witness ==
    /\ selectedCountry = "JP" /\ showPanel /\ clearTimers = 0
    /\ sentimentFilter = "positive" /\ lastFilter.bucket = "positive"
    /\ CodesOf(countries) = {"US"}
    /\ filteredCountries = <<>>

\* C29: for every score in [-1,1] the label is 'Positive' exactly when the
\* score is in the positive bucket (score > 0.2, coloured positive) and
\* 'Negative' exactly when it is in the negative bucket (score < -0.2,
\* coloured negative).
C29_LabelsAgreeWithBuckets ==
    (IsSome(label) /\ colorScore >= -100 /\ colorScore <= 100) =>
        /\ Val(label) = "Positive" <=> colorScore > 20
        /\ Val(label) = "Positive" <=> Val(sentimentColor) = "var(--positive)"
        /\ Val(label) = "Negative" <=> colorScore < -20
        /\ Val(label) = "Negative" <=> Val(sentimentColor) = "var(--negative)"

-----------------------------------------------------------------------------
(* Specification of the count-up: values arrive, the timer ticks.           *)

AnimInit ==
    /\ selectedCountry = NULL
    /\ showPanel = FALSE
    /\ sentimentFilter = "all"
    /\ clearTimers = 0
    /\ globalCache = [data |-> None, error |-> FALSE]
    /\ globalFetch = [cur |-> TRUE, old |-> 0]
    /\ detailCache = [c \in Codes |-> NoEntry]
    /\ detailFetch = [c \in Codes |-> 0]
    /\ headlinesCache = [c \in Codes |-> NoEntry]
    /\ headlinesFetch = [c \in Codes |-> 0]
    /\ lastSel = NoSelect
    /\ lastFilter = [bucket |-> "none", was |-> "all"]
    /\ hookLog = LogOff
    /\ AsideInit

AnimTicks == \E i \in DOMAIN animTimers : Tick(i)

AnimValueChanges == \E v \in 0..MaxValue : SetValue(v)

AnimNext ==
    \/ AnimValueChanges
    \/ AnimTicks
    \/ AnimUnmount

AnimSpec == AnimInit /\ [][AnimNext]_vars /\ WF_vars(AnimTicks)

\* C30: the count-up has at most one active interval timer, and it is the
\* one of the current value, still short of 20 ticks; every tick leaves
\* 0 <= displayValue <= value; a timer stops only on its 20th tick, with
\* displayValue = value; after a value change no timer of the old value is
\* left; and once the value stops changing the timer stops with
\* displayValue = value.
C30_CountUp ==
    /\ [](/\ Len(animTimers) <= 1
          /\ \A i \in DOMAIN animTimers :
                /\ animTimers[i].value = animValue
                /\ animTimers[i].step < steps)
    /\ [][(animValue' = animValue /\ animMounted' = animMounted
           /\ animTimers' # animTimers) =>
             /\ displayValue' >= 0
             /\ displayValue' <= animValue
             /\ (Len(animTimers') < Len(animTimers) =>
                    /\ animTimers[1].step = steps - 1
                    /\ displayValue' = animValue)]_vars
    /\ [][animValue' # animValue =>
             \A i \in DOMAIN animTimers' :
                /\ animTimers'[i].value = animValue'
                /\ animTimers'[i].step = 0]_vars
    /\ <>[](/\ animTimers = <<>>
            /\ animMounted => displayValue = animValue)

\* A count-up restarted by a second value has run to its end
C30_Witness ==
    /\ animMounted
    /\ valueChanges >= 2
    /\ animValue > 0
    /\ animTimers = <<>>
    /\ displayValue = animValue

====
